---- MODULE Spec2Model ----
(***************************************************************************)
(* A model of mistral_7b_lora_fine_tuning_on_alpaca_dataset.py: the prompt *)
(* formatter (format_instruction), the generation formatter                *)
(* (generate_response), the dataset slice and the linear script that       *)
(* calls into the external training libraries.                             *)
(*                                                                         *)
(* Text is a sequence of chunks.  A chunk is one character ("a", "\n") or  *)
(* one literal of the templates taken whole (a section marker, a preamble  *)
(* sentence).  Every template chunk that touches a substituted field is a  *)
(* "\n" and no marker contains "\n", so an occurrence of a marker in the   *)
(* Python string lies in the template or inside one field, never across   *)
(* both: the chunk view keeps every occurrence of a marker.                *)
(***************************************************************************)
EXTENDS Integers, Sequences, FiniteSets, TLC

VARIABLES
    pc,                 \* position of the script
    fraction,           \* DATASET_SIZE, as <<numerator, denominator>>
    dataset,            \* dataset['train']
    train_size,
    train_dataset,
    formatted_dataset,
    tokenizer,
    model,
    base_model,
    outdir,             \* what OUTPUT_DIR holds
    adapter_source,     \* the directory PeftModel.from_pretrained read
    test_i,             \* index of the test loop
    executed,           \* the steps that ran to completion, in order
    failed_at,          \* the step whose library call raised
    console,            \* closing messages printed so far
    reported_pct,       \* the percentage the closing message names
    example,            \* argument of format_instruction
    text,               \* format_instruction(example)["text"]
    instruction,        \* arguments of generate_response
    input_text,
    continuation,       \* what the model generated after the prompt
    prompt,
    decoded,            \* tokenizer.decode(outputs[0], ...)
    response

scriptVars == <<fraction, dataset, train_size, train_dataset, formatted_dataset,
                tokenizer, model, base_model, outdir, adapter_source, test_i,
                executed, failed_at, console, reported_pct>>
formatVars == <<example, text>>
genVars == <<instruction, input_text, continuation, prompt, decoded, response>>
vars == <<pc, scriptVars, formatVars, genVars>>

---------------------------------------------------------------------------
(* Bounds *)

MaxFieldLen == 1         \* chunks in an instruction or an input
MaxOutputLen == 3        \* chunks in an output or a generated continuation
MaxSmallLen == 3         \* small datasets have 0..MaxSmallLen rows
MaxHundreds == 2         \* large datasets have about 100, 200, ... rows

---------------------------------------------------------------------------
(* Text *)

NL == "\n"
InstructionMarker == "### Instruction:"
InputMarker == "### Input:"
ResponseMarker == "### Response:"
PreambleWithInput == "Below is an instruction that describes a task, paired with an input that provides further context. Write a response that appropriately completes the request."
PreambleNoInput == "Below is an instruction that describes a task. Write a response that appropriately completes the request."

\* What str.strip() removes (of the characters a TLA+ string can hold).
Whitespace == {" ", "\n", "\t", "\r", "\f"}

\* The chunks a field or a generated text is made of.
Alphabet == {"a", NL, InputMarker, ResponseMarker}

RECURSIVE StringsOfLen(_)
StringsOfLen(n) ==
    IF n = 0 THEN {<<>>}
    ELSE {Append(s, c) : s \in StringsOfLen(n - 1), c \in Alphabet}

StringsUpTo(n) == UNION {StringsOfLen(k) : k \in 0..n}

\* str.find: the lowest index at which sub occurs in s, 0 when it does not.
find(s, sub) ==
    LET hits == {i \in 1..(Len(s) - Len(sub) + 1) :
                    SubSeq(s, i, i + Len(sub) - 1) = sub}
    IN IF hits = {} THEN 0 ELSE CHOOSE i \in hits : \A j \in hits : i <= j

\* sub in s
contains(s, sub) == find(s, sub) # 0

\* str.split(sep): the pieces between the occurrences of sep, left to right.
RECURSIVE split(_, _)
split(s, sep) ==
    LET i == find(s, sep)
    IN IF i = 0 THEN <<s>>
       ELSE <<SubSeq(s, 1, i - 1)>> \o split(SubSeq(s, i + Len(sep), Len(s)), sep)

RECURSIVE lstrip(_)
lstrip(s) ==
    IF s # <<>> /\ Head(s) \in Whitespace THEN lstrip(Tail(s)) ELSE s

RECURSIVE rstrip(_)
rstrip(s) ==
    IF s # <<>> /\ s[Len(s)] \in Whitespace THEN rstrip(SubSeq(s, 1, Len(s) - 1)) ELSE s

strip(s) == rstrip(lstrip(s))

---------------------------------------------------------------------------
(* Step 6: format_instruction *)

format_instruction_SwappedBranch(ex) ==
    IF ex.input = <<>>
    THEN [text |-> <<PreambleWithInput, NL, NL, InstructionMarker, NL>> \o ex.instruction
                   \o <<NL, NL, InputMarker, NL>> \o ex.input
                   \o <<NL, NL, ResponseMarker, NL>> \o ex.output]
    ELSE [text |-> <<PreambleNoInput, NL, NL, InstructionMarker, NL>> \o ex.instruction
                   \o <<NL, NL, ResponseMarker, NL>> \o ex.output]

format_instruction(ex) ==
    IF ex.input # <<>>
    THEN [text |-> <<PreambleWithInput, NL, NL, InstructionMarker, NL>> \o ex.instruction
                   \o <<NL, NL, InputMarker, NL>> \o ex.input
                   \o <<NL, NL, ResponseMarker, NL>> \o ex.output]
    ELSE [text |-> <<PreambleNoInput, NL, NL, InstructionMarker, NL>> \o ex.instruction
                   \o <<NL, NL, ResponseMarker, NL>> \o ex.output]

---------------------------------------------------------------------------
(* Step 14: generate_response *)

build_prompt_NoTrailingNewline(instr, inp) ==
    IF inp # <<>>
    THEN <<PreambleWithInput, NL, NL, InstructionMarker, NL>> \o instr
         \o <<NL, NL, InputMarker, NL>> \o inp \o <<NL, NL, ResponseMarker>>
    ELSE <<PreambleNoInput, NL, NL, InstructionMarker, NL>> \o instr
         \o <<NL, NL, ResponseMarker>>

\* The prompt generate_response builds from its arguments.
build_prompt(instr, inp) ==
    IF inp # <<>>
    THEN <<PreambleWithInput, NL, NL, InstructionMarker, NL>> \o instr
         \o <<NL, NL, InputMarker, NL>> \o inp \o <<NL, NL, ResponseMarker, NL>>
    ELSE <<PreambleNoInput, NL, NL, InstructionMarker, NL>> \o instr
         \o <<NL, NL, ResponseMarker, NL>>

IndexError == <<"IndexError">>

extract_response_FirstSegment(raw) ==
    LET parts == split(raw, <<ResponseMarker>>)
    IN IF Len(parts) = 0 THEN IndexError
       ELSE strip(parts[IF Len(parts) > 1 THEN 2 ELSE 1])

extract_response_NoStrip(raw) ==
    LET parts == split(raw, <<ResponseMarker>>)
    IN IF Len(parts) = 0 THEN IndexError ELSE parts[Len(parts)]

\* response.split("### Response:")[-1].strip(); indexing an empty list raises.
extract_response(raw) ==
    LET parts == split(raw, <<ResponseMarker>>)
    IN IF Len(parts) = 0 THEN IndexError ELSE strip(parts[Len(parts)])

\* What tokenizer.decode may return for a prompt and a sampled continuation:
\* the prompt followed by the continuation, or, when the prompt does not
\* survive truncation and decoding, the continuation alone.
DecodedTexts(p, c) == {p \o c, c}

generate_response(instr, inp, c) ==
    \E dec \in DecodedTexts(build_prompt(instr, inp), c) :
        /\ instruction' = instr
        /\ input_text' = inp
        /\ continuation' = c
        /\ prompt' = build_prompt(instr, inp)
        /\ decoded' = dec
        /\ response' = extract_response(dec)

---------------------------------------------------------------------------
(* Step 4 and step 5: configuration, dataset and slice *)

\* DATASET_SIZE = 0.01, as <<numerator, denominator>>.
DATASET_SIZE == <<1, 100>>
MODEL_NAME == "mistralai/Mistral-7B-v0.1"
OUTPUT_DIR == "./mistral-7b-alpaca-lora"
\* "The model has been fine-tuned on 5% of the Alpaca dataset using LoRA."
ReportedPercent == 5

\* The values DATASET_SIZE is given in the slice checks.  For each of them the
\* double product len * fraction, truncated by int(), equals the exact
\* quotient below at every length of the model: 0, 1/4, 1/2, 3/4 and 1 are
\* binary fractions, and the double 0.01 lies so little above 1/100 that the
\* product rounds to the integer where the exact product is one.
Fractions == {<<0, 1>>, DATASET_SIZE, <<1, 4>>, <<1, 2>>, <<3, 4>>, <<1, 1>>}

\* Rows like Alpaca's: with and without an input.
Pool ==
    << [instruction |-> <<"a">>, input |-> <<>>, output |-> <<"a">>],
       [instruction |-> <<"a">>, input |-> <<"a">>, output |-> <<"a", NL>>],
       [instruction |-> <<NL, "a">>, input |-> <<>>, output |-> <<>>] >>

DatasetLens ==
    (0..MaxSmallLen) \cup {100 * h + d : h \in 1..MaxHundreds, d \in {-1, 0, 1}}

\* What load_dataset may return as the "train" partition.
Datasets ==
    {[i \in 1..n |-> Pool[((i + off) % Len(Pool)) + 1]] :
        n \in DatasetLens, off \in 0..(Len(Pool) - 1)}

int_times_ExtraRow(n, f) == ((n * f[1]) \div f[2]) + (IF n > 0 /\ f[1] < f[2] THEN 1 ELSE 0)

\* int(len(dataset['train']) * DATASET_SIZE)
int_times(n, f) == (n * f[1]) \div f[2]

\* range(n): 0, 1, ..., n - 1
range(n) == [i \in 1..n |-> i - 1]

\* Dataset.select raises when an index is not a row of the dataset; select and
\* map are taken to raise for no other reason.
select_raises(ds, indices) == \E k \in 1..Len(indices) : indices[k] >= Len(ds)

select_Shifted(ds, indices) ==
    [k \in 1..Len(indices) |-> ds[((indices[k] + 1) % Len(ds)) + 1]]

\* Dataset.select(indices): the rows at the indices, in the indices' order.
select(ds, indices) == [k \in 1..Len(indices) |-> ds[indices[k] + 1]]

\* Dataset.map(fn, remove_columns=column_names): fn's record for each row.
map_dataset(ds) == [k \in 1..Len(ds) |-> format_instruction(ds[k])]

\* What model.generate may sample after the prompt in the test loop: plain
\* text, text within blank lines, nothing, text that repeats the marker.
SampledContinuations ==
    {<<"a">>, <<NL, "a", NL>>, <<>>, <<"a", NL, ResponseMarker, NL, "a">>}

test_instructions ==
    << <<"Explain the concept of artificial intelligence in simple terms.">>,
       <<"Write a short poem about nature.">>,
       <<"What are the benefits of exercise?">> >>

---------------------------------------------------------------------------
(* The script *)

NoExample == [instruction |-> <<>>, input |-> <<>>, output |-> <<>>]

InitGen ==
    /\ instruction = <<>>
    /\ input_text = <<>>
    /\ continuation = <<>>
    /\ prompt = <<>>
    /\ decoded = <<>>
    /\ response = <<>>

InitFormatVars ==
    /\ example = NoExample
    /\ text = <<>>

InitScript ==
    /\ dataset = <<>>
    /\ train_size = 0
    /\ train_dataset = <<>>
    /\ formatted_dataset = <<>>
    /\ tokenizer = "none"
    /\ model = "none"
    /\ base_model = "none"
    /\ outdir = {}
    /\ adapter_source = ""
    /\ test_i = 1
    /\ executed = <<>>
    /\ failed_at = ""
    /\ console = {}
    /\ reported_pct = {}

\* The script as written: DATASET_SIZE = 0.01.
Init ==
    /\ pc = "load_dataset"
    /\ fraction = DATASET_SIZE
    /\ InitScript
    /\ InitFormatVars
    /\ InitGen

\* The script with DATASET_SIZE set to any of Fractions.
InitAnyFraction ==
    /\ pc = "load_dataset"
    /\ fraction \in Fractions
    /\ InitScript
    /\ InitFormatVars
    /\ InitGen

Completed_SkipsSave(step, next) ==
    /\ pc' = IF next = "save_adapter" THEN "reload_base" ELSE next
    /\ executed' = Append(executed, step)
    /\ failed_at' = failed_at

\* A step ran to completion; the script goes on with the next statement.
Completed(step, next) ==
    /\ pc' = next
    /\ executed' = Append(executed, step)
    /\ failed_at' = failed_at

Raise_FallThrough(step) ==
    /\ pc' = "closing"
    /\ failed_at' = step
    /\ executed' = executed

\* A library call raised: nothing catches it and the process ends.
Raise(step) ==
    /\ pc' = "failed"
    /\ failed_at' = step
    /\ executed' = executed

LoadDataset ==
    /\ pc = "load_dataset"
    /\ \/ /\ \E ds \in Datasets : dataset' = ds
          /\ Completed("load_dataset", "slice")
       \/ /\ Raise("load_dataset")
          /\ UNCHANGED dataset
    /\ UNCHANGED <<fraction, train_size, train_dataset, formatted_dataset, tokenizer,
                   model, base_model, outdir, adapter_source, test_i, console,
                   reported_pct, formatVars, genVars>>

SliceStep ==
    /\ pc = "slice"
    /\ train_size' = int_times(Len(dataset), fraction)
    /\ IF select_raises(dataset, range(train_size'))
       THEN /\ Raise("slice")
            /\ UNCHANGED train_dataset
       ELSE /\ train_dataset' = select(dataset, range(train_size'))
            /\ Completed("slice", "format")
    /\ UNCHANGED <<fraction, dataset, formatted_dataset, tokenizer, model, base_model,
                   outdir, adapter_source, test_i, console, reported_pct,
                   formatVars, genVars>>

FormatStep ==
    /\ pc = "format"
    /\ formatted_dataset' = map_dataset(train_dataset)
    /\ Completed("format", "load_tokenizer")
    /\ UNCHANGED <<fraction, dataset, train_size, train_dataset, tokenizer, model,
                   base_model, outdir, adapter_source, test_i, console, reported_pct,
                   formatVars, genVars>>

LoadTokenizer ==
    /\ pc = "load_tokenizer"
    /\ \/ /\ tokenizer' = "loaded"
          /\ Completed("load_tokenizer", "load_model")
       \/ /\ Raise("load_tokenizer")
          /\ UNCHANGED tokenizer
    /\ UNCHANGED <<fraction, dataset, train_size, train_dataset, formatted_dataset,
                   model, base_model, outdir, adapter_source, test_i, console,
                   reported_pct, formatVars, genVars>>

LoadModel ==
    /\ pc = "load_model"
    /\ \/ /\ model' = "quantized"
          /\ Completed("load_model", "get_peft_model")
       \/ /\ Raise("load_model")
          /\ UNCHANGED model
    /\ UNCHANGED <<fraction, dataset, train_size, train_dataset, formatted_dataset,
                   tokenizer, base_model, outdir, adapter_source, test_i, console,
                   reported_pct, formatVars, genVars>>

ApplyLoRA ==
    /\ pc = "get_peft_model"
    /\ \/ /\ model' = "peft"
          /\ Completed("get_peft_model", "trainer_init")
       \/ /\ Raise("get_peft_model")
          /\ UNCHANGED model
    /\ UNCHANGED <<fraction, dataset, train_size, train_dataset, formatted_dataset,
                   tokenizer, base_model, outdir, adapter_source, test_i, console,
                   reported_pct, formatVars, genVars>>

TrainerInit ==
    /\ pc = "trainer_init"
    /\ \/ Completed("trainer_init", "train")
       \/ Raise("trainer_init")
    /\ UNCHANGED <<fraction, dataset, train_size, train_dataset, formatted_dataset,
                   tokenizer, model, base_model, outdir, adapter_source, test_i,
                   console, reported_pct, formatVars, genVars>>

\* trainer.train(); with save_strategy="steps" the trainer may write
\* checkpoints under output_dir=OUTPUT_DIR before it returns or raises.
Train ==
    /\ pc = "train"
    /\ \E written \in SUBSET {"checkpoint"} :
          /\ outdir' = outdir \cup written
          /\ \/ /\ model' = "trained"
                /\ Completed("train", "save_adapter")
             \/ /\ Raise("train")
                /\ UNCHANGED model
    /\ UNCHANGED <<fraction, dataset, train_size, train_dataset, formatted_dataset,
                   tokenizer, base_model, adapter_source, test_i, console,
                   reported_pct, formatVars, genVars>>

\* trainer.model.save_pretrained(OUTPUT_DIR)
SaveAdapter ==
    /\ pc = "save_adapter"
    /\ \/ /\ outdir' = outdir \cup {"adapter"}
          /\ Completed("save_adapter", "save_tokenizer")
       \/ /\ Raise("save_adapter")
          /\ UNCHANGED outdir
    /\ UNCHANGED <<fraction, dataset, train_size, train_dataset, formatted_dataset,
                   tokenizer, model, base_model, adapter_source, test_i, console,
                   reported_pct, formatVars, genVars>>

\* tokenizer.save_pretrained(OUTPUT_DIR); print(f"Model saved to {OUTPUT_DIR}")
SaveTokenizer ==
    /\ pc = "save_tokenizer"
    /\ \/ /\ outdir' = outdir \cup {"tokenizer"}
          /\ console' = console \cup {"Model saved to"}
          /\ Completed("save_tokenizer", "reload_base")
       \/ /\ Raise("save_tokenizer")
          /\ UNCHANGED <<outdir, console>>
    /\ UNCHANGED <<fraction, dataset, train_size, train_dataset, formatted_dataset,
                   tokenizer, model, base_model, adapter_source, test_i,
                   reported_pct, formatVars, genVars>>

\* base_model = AutoModelForCausalLM.from_pretrained(MODEL_NAME, ...)
ReloadBase ==
    /\ pc = "reload_base"
    /\ \/ /\ base_model' = MODEL_NAME
          /\ Completed("reload_base", "reload_adapter")
       \/ /\ Raise("reload_base")
          /\ UNCHANGED base_model
    /\ UNCHANGED <<fraction, dataset, train_size, train_dataset, formatted_dataset,
                   tokenizer, model, outdir, adapter_source, test_i, console,
                   reported_pct, formatVars, genVars>>

\* model = PeftModel.from_pretrained(base_model, OUTPUT_DIR): reads the adapter
\* the directory holds, and raises when it holds none.
ReloadAdapter ==
    /\ pc = "reload_adapter"
    /\ \/ /\ "adapter" \in outdir
          /\ model' = "adapter_on_base"
          /\ adapter_source' = OUTPUT_DIR
          /\ Completed("reload_adapter", "generate")
       \/ /\ Raise("reload_adapter")
          /\ UNCHANGED <<model, adapter_source>>
    /\ UNCHANGED <<fraction, dataset, train_size, train_dataset, formatted_dataset,
                   tokenizer, base_model, outdir, test_i, console, reported_pct,
                   formatVars, genVars>>

\* One round of the test loop: generate_response(instruction), input_text = "".
Generate ==
    /\ pc = "generate"
    /\ \/ /\ \E c \in SampledContinuations :
                generate_response(test_instructions[test_i], <<>>, c)
          /\ test_i' = test_i + 1
          /\ Completed("generate",
                       IF test_i = Len(test_instructions) THEN "closing" ELSE "generate")
       \/ /\ Raise("generate")
          /\ UNCHANGED <<test_i, genVars>>
    /\ UNCHANGED <<fraction, dataset, train_size, train_dataset, formatted_dataset,
                   tokenizer, model, base_model, outdir, adapter_source, console,
                   reported_pct, formatVars>>

Closing_ReportsConfigured ==
    /\ pc = "closing"
    /\ console' = console \cup {"FINE-TUNING COMPLETE!", "Model saved to:",
                                "The model has been fine-tuned on"}
    /\ reported_pct' = {(100 * fraction[1]) \div fraction[2]}
    /\ Completed("closing", "done")
    /\ UNCHANGED <<fraction, dataset, train_size, train_dataset, formatted_dataset,
                   tokenizer, model, base_model, outdir, adapter_source, test_i,
                   formatVars, genVars>>

\* Step 15 and the closing messages.
Closing ==
    /\ pc = "closing"
    /\ console' = console \cup {"FINE-TUNING COMPLETE!", "Model saved to:",
                                "The model has been fine-tuned on"}
    /\ reported_pct' = {ReportedPercent}
    /\ Completed("closing", "done")
    /\ UNCHANGED <<fraction, dataset, train_size, train_dataset, formatted_dataset,
                   tokenizer, model, base_model, outdir, adapter_source, test_i,
                   formatVars, genVars>>

Next ==
    \/ LoadDataset
    \/ SliceStep
    \/ FormatStep
    \/ LoadTokenizer
    \/ LoadModel
    \/ ApplyLoRA
    \/ TrainerInit
    \/ Train
    \/ SaveAdapter
    \/ SaveTokenizer
    \/ ReloadBase
    \/ ReloadAdapter
    \/ Generate
    \/ Closing

Spec == Init /\ [][Next]_vars

SpecAnyFraction == InitAnyFraction /\ [][Next]_vars

---------------------------------------------------------------------------
(* format_instruction applied to any example *)

Examples ==
    [instruction : StringsUpTo(MaxFieldLen),
     input : StringsUpTo(MaxFieldLen),
     output : StringsUpTo(MaxOutputLen)]

InitFormat ==
    /\ pc = "format_call"
    /\ fraction = DATASET_SIZE
    /\ InitScript
    /\ example \in Examples
    /\ text = <<>>
    /\ InitGen

FormatCall ==
    /\ pc = "format_call"
    /\ text' = format_instruction(example).text
    /\ pc' = "format_return"
    /\ UNCHANGED <<scriptVars, example, genVars>>

NextFormat == FormatCall

SpecFormat == InitFormat /\ [][NextFormat]_vars

---------------------------------------------------------------------------
(* generate_response applied to any arguments and any generated text *)

InitGenerate ==
    /\ pc = "generate_call"
    /\ fraction = DATASET_SIZE
    /\ InitScript
    /\ InitFormatVars
    /\ instruction \in StringsUpTo(MaxFieldLen)
    /\ input_text \in StringsUpTo(MaxFieldLen)
    /\ continuation \in StringsUpTo(MaxOutputLen)
    /\ prompt = <<>>
    /\ decoded = <<>>
    /\ response = <<>>

GenerateCall ==
    /\ pc = "generate_call"
    /\ generate_response(instruction, input_text, continuation)
    /\ pc' = "generate_return"
    /\ UNCHANGED <<scriptVars, formatVars>>

NextGenerate == GenerateCall

SpecGenerate == InitGenerate /\ [][NextGenerate]_vars

---------------------------------------------------------------------------
(* Properties *)

Range(s) == {s[i] : i \in 1..Len(s)}

IsPrefix(s, t) == Len(s) <= Len(t) /\ \A i \in 1..Len(s) : s[i] = t[i]

\* r is s with its leading and trailing whitespace removed, said without strip.
IsTrimOf(r, s) ==
    \E i \in 1..(Len(s) + 1) : \E j \in 0..Len(s) :
        /\ r = SubSeq(s, i, j)
        /\ \A k \in 1..(i - 1) : s[k] \in Whitespace
        /\ \A k \in (j + 1)..Len(s) : s[k] \in Whitespace
        /\ r # <<>> => (r[1] \notin Whitespace /\ r[Len(r)] \notin Whitespace)

\* k = floor(n * f), said without division.
IsFloorOf(k, n, f) == k * f[2] <= n * f[1] /\ n * f[1] < (k + 1) * f[2]

\* The three section markers occur in t, in the order of the template.
MarkersInOrder(t) ==
    \E i \in 1..Len(t) : \E j \in (i + 1)..Len(t) : \E k \in (j + 1)..Len(t) :
        /\ t[i] = InstructionMarker
        /\ t[j] = InputMarker
        /\ t[k] = ResponseMarker

Formatted == pc = "format_return"
Generated == pc = "generate_return"
Sliced == "slice" \in Range(executed)

\* C1: for an example with a non-empty input, whatever its instruction and
\* output, the formatted text holds "### Instruction:", "### Input:" and
\* "### Response:", occurring in that order.
C1_MarkersInOrder ==
    (Formatted /\ example.input # <<>>) => MarkersInOrder(text)

C1_Witness ==
    /\ Formatted
    /\ example.input # <<>>
    /\ example.instruction = <<>>
    /\ example.output = <<>>
    /\ MarkersInOrder(text)

\* C2 as stated: for an example with an empty input, whatever its instruction
\* and output, the formatted text does not contain "### Input:".
C2_NoInputMarker_AnyFields ==
    (Formatted /\ example.input = <<>>) => ~contains(text, <<InputMarker>>)

\* C2, amended: for an example with an empty input whose instruction and
\* output do not themselves contain "### Input:", the formatted text does not
\* contain "### Input:".
C2_NoInputMarker ==
    (/\ Formatted
     /\ example.input = <<>>
     /\ ~contains(example.instruction, <<InputMarker>>)
     /\ ~contains(example.output, <<InputMarker>>))
    => ~contains(text, <<InputMarker>>)

C2_Witness ==
    /\ Formatted
    /\ example.input = <<>>
    /\ example.instruction # <<>>
    /\ example.output # <<>>
    /\ ~contains(example.instruction, <<InputMarker>>)
    /\ ~contains(example.output, <<InputMarker>>)
    /\ ~contains(text, <<InputMarker>>)

\* C3 as stated: whenever the decoded text is the prompt followed by a suffix,
\* for every suffix, the extracted response is the suffix trimmed.
C3_RightInverse_AnySuffix ==
    (Generated /\ decoded = prompt \o continuation)
    => IsTrimOf(response, continuation)

\* C3, amended: whenever the decoded text is the prompt followed by a suffix
\* that does not contain "### Response:", the extracted response is the suffix
\* trimmed.
C3_RightInverse ==
    (/\ Generated
     /\ decoded = prompt \o continuation
     /\ ~contains(continuation, <<ResponseMarker>>))
    => IsTrimOf(response, continuation)

C3_Witness ==
    /\ Generated
    /\ decoded = prompt \o continuation
    /\ contains(instruction, <<ResponseMarker>>)
    /\ input_text # <<>>
    /\ ~contains(continuation, <<ResponseMarker>>)
    /\ response # <<>>
    /\ response # continuation
    /\ IsTrimOf(response, continuation)

\* C4: the slice has exactly floor(len(dataset) * fraction) rows, row i of the
\* slice is row i of the dataset, and slicing the slice again with fraction
\* 1.0 returns it unchanged.
C4_SlicePrefix ==
    Sliced =>
        /\ train_size = Len(train_dataset)
        /\ IsFloorOf(Len(train_dataset), Len(dataset), fraction)
        /\ \A i \in 1..Len(train_dataset) : train_dataset[i] = dataset[i]
        /\ select(train_dataset, range(int_times(Len(train_dataset), <<1, 1>>)))
               = train_dataset

C4_Witness ==
    /\ Sliced
    /\ fraction # DATASET_SIZE
    /\ Len(train_dataset) > 1
    /\ Len(train_dataset) < Len(dataset)
    /\ Len(train_dataset) * fraction[2] < Len(dataset) * fraction[1]

\* C5: when floor(len(dataset) * fraction) = 0 (fraction = 0 included) the
\* slice is empty, neither the slice step nor the format step raises, and the
\* script goes on to format and to train on zero examples; with fraction = 1.0
\* the slice is the whole dataset.
C5_SliceBoundaries ==
    /\ (/\ pc \notin {"load_dataset", "slice"}
        /\ "load_dataset" \in Range(executed)
        /\ IsFloorOf(0, Len(dataset), fraction))
       => /\ failed_at \notin {"slice", "format"}
          /\ Sliced
          /\ train_dataset = <<>>
          /\ formatted_dataset = <<>>
          /\ pc = "format" \/ "format" \in Range(executed)
    /\ (Sliced /\ fraction = <<1, 1>>) => train_dataset = dataset

C5_Witness ==
    /\ "train" \in Range(executed)
    /\ Len(dataset) > 0
    /\ fraction # <<0, 1>>
    /\ train_size = 0
    /\ formatted_dataset = <<>>

\* C6: the formatted text is the prompt generate_response builds for the
\* example's instruction and input, followed by the output verbatim; so it
\* ends with "### Response:\n" and the output, and both functions take the
\* same template branch.
C6_PromptMirrorsTemplate ==
    Formatted =>
        LET p == build_prompt(example.instruction, example.input)
            tail == <<ResponseMarker, NL>> \o example.output
        IN /\ text = p \o example.output
           /\ Len(text) >= Len(tail)
           /\ SubSeq(text, Len(text) - Len(tail) + 1, Len(text)) = tail
           /\ text[1] = p[1]
           /\ (text[1] = PreambleWithInput) <=> (example.input # <<>>)

C6_Witness ==
    /\ Formatted
    /\ example.instruction = <<>>
    /\ example.output = <<>>
    /\ example.input = <<>>
    /\ text = build_prompt(<<>>, <<>>)

\* C7: when the decoded text does not contain "### Response:", the extraction
\* raises nothing and returns the whole decoded text, trimmed.
C7_MarkerAbsent ==
    (Generated /\ ~contains(decoded, <<ResponseMarker>>))
    => (response # IndexError /\ IsTrimOf(response, decoded))

C7_Witness ==
    /\ Generated
    /\ ~contains(decoded, <<ResponseMarker>>)
    /\ decoded # <<>>
    /\ response # decoded
    /\ response # <<>>

\* The order of the steps the claims name (the test loop generates three times).
ScriptOrder ==
    <<"load_dataset", "slice", "format", "load_tokenizer", "load_model",
      "get_peft_model", "trainer_init", "train", "save_adapter", "save_tokenizer",
      "reload_base", "reload_adapter", "generate", "generate", "generate", "closing">>

\* C8: the steps run in one fixed order, and generate_response is neither
\* called nor about to be called before training has finished, the adapter has
\* been saved and the adapter has been reloaded from the output directory.
C8_FixedOrder ==
    /\ IsPrefix(executed, ScriptOrder)
    /\ (pc = "generate" \/ "generate" \in Range(executed) \/ prompt # <<>>)
       => /\ "train" \in Range(executed)
          /\ "save_adapter" \in Range(executed)
          /\ "save_tokenizer" \in Range(executed)
          /\ "reload_adapter" \in Range(executed)
          /\ {"adapter", "tokenizer"} \subseteq outdir
          /\ base_model = MODEL_NAME
          /\ model = "adapter_on_base"
          /\ adapter_source = OUTPUT_DIR

C8_Witness ==
    /\ pc = "done"
    /\ executed = ScriptOrder
    /\ response # <<>>

\* C9: once a library call has raised, the script is over: the steps that ran
\* are exactly those before the failed one, none ran after it or again, and
\* when training failed the save step has written nothing to the output
\* directory and "FINE-TUNING COMPLETE!" is not printed.
C9_FailureTerminates ==
    failed_at # "" =>
        /\ pc = "failed"
        /\ IsPrefix(executed, ScriptOrder)
        /\ Len(executed) < Len(ScriptOrder)
        /\ ScriptOrder[Len(executed) + 1] = failed_at
        /\ "FINE-TUNING COMPLETE!" \notin console
        /\ failed_at = "train" =>
              /\ "adapter" \notin outdir
              /\ "tokenizer" \notin outdir
              /\ "Model saved to" \notin console

C9_Witness ==
    /\ pc = "failed"
    /\ failed_at = "train"
    /\ "checkpoint" \in outdir
    /\ Len(train_dataset) > 0

\* C10: in every run that reaches the closing message, the message names 5%,
\* the slice size was computed from DATASET_SIZE = 1%, and the two differ.
C10_ReportedFractionDiffers ==
    pc = "done" =>
        /\ reported_pct = {5}
        /\ fraction = <<1, 100>>
        /\ DATASET_SIZE = <<1, 100>>
        /\ train_size = (Len(dataset) * 1) \div 100
        /\ \A p \in reported_pct : p * fraction[2] # 100 * fraction[1]

C10_Witness ==
    /\ pc = "done"
    /\ "The model has been fine-tuned on" \in console
    /\ train_size > 0
    /\ reported_pct # {}

====
